---- MODULE Spec2Model ----
(***************************************************************************)
(* GroupService (src/frontend/src/themes/themeStyles.ts, lines 190-429):   *)
(* group lifecycle, membership reconciliation and external-group sync over *)
(* a group store, an account store and an event store.                     *)
(*                                                                         *)
(* The stores are injected collaborators whose implementation is not part  *)
(* of the source at hand; they are modelled from the data model of the     *)
(* specification (a table of groups, a table of (group, user) rows with at *)
(* most one row per pair, a table of group roles, an append-only event     *)
(* log).  Every store call is one atomic step; a service method is the     *)
(* sequence of its awaited store calls.                                    *)
(***************************************************************************)
EXTENDS Integers, Sequences, FiniteSets, TLC

VARIABLES groups, groupUsers, groupRoles, events, nextId, calls, seeds, frame

vars == <<groups, groupUsers, groupRoles, events, nextId, calls, seeds, frame>>

(***************************************************************************)
(* Bounds and input sets                                                   *)
(***************************************************************************)
MaxCalls == 1          \* service calls made after the seeding calls
MaxSeeds == 2          \* createGroup calls that populate the store first
MaxSyncCalls == 2      \* calls made in the repeated-sync specification
MaxConcCalls == 2      \* calls started in the interleaved specification

NoId == 0              \* a missing id (falsy in `group.id &&`)
NoRole == 0            \* a missing root role (falsy in `group.rootRole &&`)

Procs == {"p1", "p2"}
Main == "p1"
Names == {"", "a", "b"}          \* "" is the empty or missing name
RootRoles == {NoRole, 1}
Users == {1, 2, 3}
AllUsers == <<1, 2, 3>>          \* the account table, in listing order
Actors == {"bob"}
Projects == {"default"}
UserLists == {<<>>, <<1, 2>>, <<2, 3>>, <<3, 3>>}
GroupIds == 1..3

Range(s) == {s[i] : i \in DOMAIN s}
HasDuplicates(s) == \E i, j \in DOMAIN s : i # j /\ s[i] = s[j]

NoGroup == [id |-> NoId, name |-> "", rootRole |-> NoRole]

(***************************************************************************)
(* The stores.  db is the record of the tables                             *)
(*   groups     : sequence of [id, name, rootRole], in listing order       *)
(*   groupUsers : sequence of [groupId, userId, createdBy, joinedAt]       *)
(*   groupRoles : sequence of [groupId, project]                           *)
(*   events     : the event log                                            *)
(*   nextId     : the next serial group id                                 *)
(***************************************************************************)
DB == [groups |-> groups, groupUsers |-> groupUsers, groupRoles |-> groupRoles,
       events |-> events, nextId |-> nextId]

EmptyDB == [groups |-> <<>>, groupUsers |-> <<>>, groupRoles |-> <<>>,
            events |-> <<>>, nextId |-> 1]

existsWithName(db, name) == \E i \in DOMAIN db.groups : db.groups[i].name = name

hasProjectRole(db, id) == \E i \in DOMAIN db.groupRoles : db.groupRoles[i].groupId = id

exists(db, id) == \E i \in DOMAIN db.groups : db.groups[i].id = id

get(db, id) == db.groups[CHOOSE i \in DOMAIN db.groups : db.groups[i].id = id]

storeGetAll(db) == db.groups

create(db, group) ==
    LET newGroup == [id |-> db.nextId, name |-> group.name, rootRole |-> group.rootRole]
    IN [db |-> [db EXCEPT !.groups = Append(@, newGroup), !.nextId = @ + 1],
        ret |-> newGroup]

update(db, group) ==
    LET newGroup == [id |-> group.id, name |-> group.name, rootRole |-> group.rootRole]
    IN [db |-> [db EXCEPT !.groups =
                   [i \in DOMAIN @ |-> IF @[i].id = group.id THEN newGroup ELSE @[i]]],
        ret |-> newGroup]

getAllUsersByGroups(db, ids) == SelectSeq(db.groupUsers, LAMBDA r : r.groupId \in ids)

getGroupProjects(db, ids) == SelectSeq(db.groupRoles, LAMBDA r : r.groupId \in ids)

getAllWithId(ids) == SelectSeq(AllUsers, LAMBDA u : u \in Range(ids))

IsMember(db, groupId, userId) ==
    \E i \in DOMAIN db.groupUsers :
        db.groupUsers[i].groupId = groupId /\ db.groupUsers[i].userId = userId

InsertConflicts_Never(db, pairs) == FALSE

\* One row per (group, user) pair: a batch that repeats a pair, or names a
\* pair already in the table, is rejected as a whole.
InsertConflicts(db, pairs) ==
    \/ HasDuplicates(pairs)
    \/ \E i \in DOMAIN pairs : IsMember(db, pairs[i][1], pairs[i][2])

insertGroupUsers(db, pairs, createdBy, now) ==
    [db EXCEPT !.groupUsers = @ \o
        [i \in DOMAIN pairs |-> [groupId |-> pairs[i][1], userId |-> pairs[i][2],
                                 createdBy |-> createdBy, joinedAt |-> now]]]

deleteUsersFromGroup(db, rows) ==
    [db EXCEPT !.groupUsers = SelectSeq(@, LAMBDA r :
        ~ \E i \in DOMAIN rows : rows[i].groupId = r.groupId /\ rows[i].userId = r.userId)]

addUsersToGroup(db, groupId, users, userName, now) ==
    LET pairs == [i \in DOMAIN users |-> <<groupId, users[i]>>]
    IN IF InsertConflicts(db, pairs) THEN [ok |-> FALSE, db |-> db]
       ELSE [ok |-> TRUE, db |-> insertGroupUsers(db, pairs, userName, now)]

updateGroupUsers(db, groupId, newUsers, deletableUsers, userName, now) ==
    LET added == addUsersToGroup(db, groupId, newUsers, userName, now)
    IN IF ~ added.ok THEN added
       ELSE [ok |-> TRUE, db |-> deleteUsersFromGroup(added.db, deletableUsers)]

addUserToGroups(db, userId, groupIds, createdBy, now) ==
    LET pairs == [i \in DOMAIN groupIds |-> <<groupIds[i], userId>>]
    IN IF InsertConflicts(db, pairs) THEN [ok |-> FALSE, db |-> db]
       ELSE [ok |-> TRUE, db |-> insertGroupUsers(db, pairs, createdBy, now)]

\* A group is implied by the external list when its name is on the list.
getNewGroupsForExternalUser(db, userId, externalGroups) ==
    SelectSeq(db.groups, LAMBDA g :
        g.name \in externalGroups /\ ~ IsMember(db, g.id, userId))

getOldGroupsForExternalUser(db, userId, externalGroups) ==
    SelectSeq(db.groupUsers, LAMBDA r :
        /\ r.userId = userId
        /\ \E i \in DOMAIN db.groups :
              db.groups[i].id = r.groupId /\ db.groups[i].name \notin externalGroups)

storeEvent(db, event) == [db EXCEPT !.events = Append(@, event)]

(***************************************************************************)
(* A call in progress: its arguments, its position and its locals.         *)
(***************************************************************************)
NoInput == [id |-> NoId, name |-> "", rootRole |-> NoRole, users |-> <<>>]
NoExternal == [isArray |-> FALSE, names |-> {}]
NoPrev == [op |-> "none", userId |-> 0, externalGroups |-> NoExternal, result |-> "",
           changed |-> FALSE]

IdleFrame ==
    [pc |-> "idle", op |-> "none", group |-> NoInput, userName |-> "",
     userId |-> 0, externalGroups |-> NoExternal, now |-> 0,
     result |-> "", writes |-> <<>>, nameChecked |-> FALSE,
     preData |-> NoGroup, newGroup |-> NoGroup, existingUsers |-> <<>>,
     added |-> <<>>, removed |-> <<>>, newGroups |-> <<>>, oldGroups |-> <<>>,
     allGroups |-> <<>>, allGroupUsers |-> <<>>, users |-> <<>>,
     ret |-> <<>>, pre |-> EmptyDB, prev |-> NoPrev]

\* What a call remembers of the call made before it.
Summary(db, f) == [op |-> f.op, userId |-> f.userId,
                   externalGroups |-> f.externalGroups, result |-> f.result,
                   changed |-> (db.groupUsers # f.pre.groupUsers)]

Fail(f, err) == [f EXCEPT !.pc = "done", !.result = err]
Return(f) == [f EXCEPT !.pc = "done", !.result = "ok"]
Wrote(f, call) == [f EXCEPT !.writes = Append(@, call)]

\* The awaited calls of each method, in program order.
CreateSequence == <<"v_name", "v_role", "c_create", "c_addUsers", "c_event">>

UpdateSequence_WriteFirst ==
    <<"u_get", "u_update", "v_name", "v_role", "u_getUsers", "u_updateUsers", "u_event">>

UpdateSequence ==
    <<"u_get", "v_name", "v_role", "u_update", "u_getUsers", "u_updateUsers", "u_event">>

SyncSequence == <<"s_new", "s_add", "s_old", "s_delete">>

GetAllSequence == <<"g_groups", "g_users", "g_accounts", "g_projects">>

SequenceOf(op) ==
    CASE op = "createGroup" -> CreateSequence
      [] op = "updateGroup" -> UpdateSequence
      [] op = "syncExternalGroups" -> SyncSequence
      [] op = "getAll" -> GetAllSequence

Advance(f) ==
    LET s == SequenceOf(f.op)
        i == CHOOSE k \in DOMAIN s : s[k] = f.pc
    IN IF i = Len(s) THEN Return(f) ELSE [f EXCEPT !.pc = s[i + 1]]

(***************************************************************************)
(* validateGroup                                                           *)
(***************************************************************************)
IsEmptyName_Never(name) == FALSE

IsEmptyName(name) == name = ""

NeedsNameCheck_Always(group, existingGroup) == TRUE

NeedsNameCheck(group, existingGroup) ==
    existingGroup = NoGroup \/ existingGroup.name # group.name

NeedsRoleCheck_Inverted(group) == group.id # NoId /\ group.rootRole = NoRole

NeedsRoleCheck(group) == group.id # NoId /\ group.rootRole # NoRole

validateName(db, f) ==
    IF IsEmptyName(f.group.name) THEN Fail(f, "BadDataError")
    ELSE IF NeedsNameCheck(f.group, f.preData)
         THEN IF existsWithName(db, f.group.name)
              THEN Fail([f EXCEPT !.nameChecked = TRUE], "NameExistsError")
              ELSE Advance([f EXCEPT !.nameChecked = TRUE])
         ELSE Advance(f)

validateRole(db, f) ==
    IF NeedsRoleCheck(f.group) /\ hasProjectRole(db, f.group.id)
    THEN Fail(f, "BadDataError")
    ELSE Advance(f)

(***************************************************************************)
(* createGroup                                                             *)
(***************************************************************************)
CreatedEvent(group, userName) ==
    [type |-> "GROUP_CREATED", createdBy |-> userName, data |-> group]

createStep(db, f) ==
    CASE f.pc = "c_create" ->
           LET r == create(db, f.group)
           IN [db |-> r.db,
               f |-> Advance(Wrote([f EXCEPT !.newGroup = r.ret], "create"))]
      [] f.pc = "c_addUsers" ->
           LET r == addUsersToGroup(db, f.newGroup.id, f.group.users, f.userName, f.now)
               g == Wrote(f, "addUsersToGroup")
           IN [db |-> r.db,
               f |-> IF r.ok THEN Advance(g) ELSE Fail(g, "StoreError")]
      [] f.pc = "c_event" ->
           [db |-> storeEvent(db, CreatedEvent(f.group, f.userName)),
            f |-> Advance(Wrote(f, "store"))]

(***************************************************************************)
(* updateGroup                                                             *)
(***************************************************************************)
deletableUsers_Kept(existingUsers, users) ==
    SelectSeq(existingUsers, LAMBDA existingUser :
        \E i \in DOMAIN users : users[i] = existingUser.userId)

deletableUsers(existingUsers, users) ==
    SelectSeq(existingUsers, LAMBDA existingUser :
        ~ \E i \in DOMAIN users : users[i] = existingUser.userId)

newUsers(existingUserIds, users) ==
    SelectSeq(users, LAMBDA user : user \notin Range(existingUserIds))

UpdatedEvent_NewAsPre(newGroup, preData, userName) ==
    [type |-> "GROUP_UPDATED", createdBy |-> userName, data |-> newGroup,
     preData |-> newGroup]

UpdatedEvent(newGroup, preData, userName) ==
    [type |-> "GROUP_UPDATED", createdBy |-> userName, data |-> newGroup,
     preData |-> preData]

updateStep(db, f) ==
    CASE f.pc = "u_get" ->
           [db |-> db,
            f |-> IF exists(db, f.group.id)
                  THEN Advance([f EXCEPT !.preData = get(db, f.group.id)])
                  ELSE Fail(f, "NotFoundError")]
      [] f.pc = "u_update" ->
           LET r == update(db, f.group)
           IN [db |-> r.db,
               f |-> Advance(Wrote([f EXCEPT !.newGroup = r.ret], "update"))]
      [] f.pc = "u_getUsers" ->
           [db |-> db,
            f |-> Advance([f EXCEPT !.existingUsers =
                                getAllUsersByGroups(db, {f.group.id})])]
      [] f.pc = "u_updateUsers" ->
           LET existingUserIds == [i \in DOMAIN f.existingUsers |-> f.existingUsers[i].userId]
               add == newUsers(existingUserIds, f.group.users)
               del == deletableUsers(f.existingUsers, f.group.users)
               r == updateGroupUsers(db, f.newGroup.id, add, del, f.userName, f.now)
               g == Wrote([f EXCEPT !.added = add, !.removed = del], "updateGroupUsers")
           IN [db |-> r.db,
               f |-> IF r.ok THEN Advance(g) ELSE Fail(g, "StoreError")]
      [] f.pc = "u_event" ->
           [db |-> storeEvent(db, UpdatedEvent(f.newGroup, f.preData, f.userName)),
            f |-> Advance(Wrote(f, "store"))]

(***************************************************************************)
(* syncExternalGroups                                                      *)
(***************************************************************************)
SyncRemovals_New(userId, newGroups, oldGroups) ==
    [i \in DOMAIN newGroups |-> [groupId |-> newGroups[i].id, userId |-> userId]]

SyncRemovals(userId, newGroups, oldGroups) == oldGroups

syncStep(db, f) ==
    CASE f.pc = "s_new" ->
           [db |-> db,
            f |-> Advance([f EXCEPT !.newGroups = getNewGroupsForExternalUser(
                                db, f.userId, f.externalGroups.names)])]
      [] f.pc = "s_add" ->
           LET ids == [i \in DOMAIN f.newGroups |-> f.newGroups[i].id]
               r == addUserToGroups(db, f.userId, ids, f.userName, f.now)
               g == Wrote([f EXCEPT !.added = ids], "addUserToGroups")
           IN [db |-> r.db,
               f |-> IF r.ok THEN Advance(g) ELSE Fail(g, "StoreError")]
      [] f.pc = "s_old" ->
           [db |-> db,
            f |-> Advance([f EXCEPT !.oldGroups = getOldGroupsForExternalUser(
                                db, f.userId, f.externalGroups.names)])]
      [] f.pc = "s_delete" ->
           LET del == SyncRemovals(f.userId, f.newGroups, f.oldGroups)
           IN [db |-> deleteUsersFromGroup(db, del),
               f |-> Advance(Wrote([f EXCEPT !.removed = del], "deleteUsersFromGroup"))]

(***************************************************************************)
(* getAll                                                                  *)
(***************************************************************************)
mapGroupWithUsers_AllRows(group, allGroupUsers, allUsers) ==
    LET rows == allGroupUsers
        groupUsersId == {rows[i].userId : i \in DOMAIN rows}
        selectedUsers == SelectSeq(allUsers, LAMBDA user : user \in groupUsersId)
        roleUser(user) == rows[CHOOSE i \in DOMAIN rows :
                                 /\ rows[i].userId = user
                                 /\ \A j \in DOMAIN rows : rows[j].userId = user => i <= j]
        finalUsers == [i \in DOMAIN selectedUsers |->
                          [user |-> selectedUsers[i],
                           joinedAt |-> roleUser(selectedUsers[i]).joinedAt,
                           createdBy |-> roleUser(selectedUsers[i]).createdBy]]
    IN [id |-> group.id, name |-> group.name, rootRole |-> group.rootRole,
        users |-> finalUsers]

mapGroupWithUsers(group, allGroupUsers, allUsers) ==
    LET rows == SelectSeq(allGroupUsers, LAMBDA user : user.groupId = group.id)
        groupUsersId == {rows[i].userId : i \in DOMAIN rows}
        selectedUsers == SelectSeq(allUsers, LAMBDA user : user \in groupUsersId)
        roleUser(user) == rows[CHOOSE i \in DOMAIN rows :
                                 /\ rows[i].userId = user
                                 /\ \A j \in DOMAIN rows : rows[j].userId = user => i <= j]
        finalUsers == [i \in DOMAIN selectedUsers |->
                          [user |-> selectedUsers[i],
                           joinedAt |-> roleUser(selectedUsers[i]).joinedAt,
                           createdBy |-> roleUser(selectedUsers[i]).createdBy]]
    IN [id |-> group.id, name |-> group.name, rootRole |-> group.rootRole,
        users |-> finalUsers]

mapGroupWithProjects(groupProjects, group) ==
    LET own == SelectSeq(groupProjects, LAMBDA project : project.groupId = group.id)
    IN [id |-> group.id, name |-> group.name, rootRole |-> group.rootRole,
        users |-> group.users,
        projects |-> [i \in DOMAIN own |-> own[i].project]]

getAllStep(db, f) ==
    CASE f.pc = "g_groups" ->
           [db |-> db, f |-> Advance([f EXCEPT !.allGroups = storeGetAll(db)])]
      [] f.pc = "g_users" ->
           LET ids == {f.allGroups[i].id : i \in DOMAIN f.allGroups}
           IN [db |-> db,
               f |-> Advance([f EXCEPT !.allGroupUsers = getAllUsersByGroups(db, ids)])]
      [] f.pc = "g_accounts" ->
           LET ids == [i \in DOMAIN f.allGroupUsers |-> f.allGroupUsers[i].userId]
           IN [db |-> db,
               f |-> Advance([f EXCEPT !.users = getAllWithId(ids)])]
      [] f.pc = "g_projects" ->
           LET ids == {f.allGroups[i].id : i \in DOMAIN f.allGroups}
               groupProjects == getGroupProjects(db, ids)
           IN [db |-> db,
               f |-> Advance([f EXCEPT !.ret =
                        [i \in DOMAIN f.allGroups |->
                            mapGroupWithProjects(groupProjects,
                                mapGroupWithUsers(f.allGroups[i], f.allGroupUsers, f.users))]])]

(***************************************************************************)
(* One awaited store call of a call in progress, and a call run to its end *)
(***************************************************************************)
Step(db, f) ==
    CASE f.pc = "v_name" -> [db |-> db, f |-> validateName(db, f)]
      [] f.pc = "v_role" -> [db |-> db, f |-> validateRole(db, f)]
      [] f.pc \in {"c_create", "c_addUsers", "c_event"} -> createStep(db, f)
      [] f.pc \in {"u_get", "u_update", "u_getUsers", "u_updateUsers", "u_event"} ->
           updateStep(db, f)
      [] f.pc \in {"s_new", "s_add", "s_old", "s_delete"} -> syncStep(db, f)
      [] f.pc \in {"g_groups", "g_users", "g_accounts", "g_projects"} -> getAllStep(db, f)

RECURSIVE Run(_, _)
Run(db, f) ==
    IF f.pc = "done" THEN [db |-> db, f |-> f]
    ELSE LET r == Step(db, f) IN Run(r.db, r.f)

Begin(db, old, op, now) ==
    [IdleFrame EXCEPT !.pc = SequenceOf(op)[1], !.op = op, !.now = now, !.pre = db,
                      !.prev = Summary(db, old)]

createGroup(db, old, group, userName, now) ==
    [db |-> db,
     f |-> [Begin(db, old, "createGroup", now) EXCEPT
               !.group = group, !.userName = userName]]

updateGroup(db, old, group, userName, now) ==
    [db |-> db,
     f |-> [Begin(db, old, "updateGroup", now) EXCEPT
               !.group = group, !.userName = userName]]

syncExternalGroups(db, old, userId, externalGroups, createdBy, now) ==
    LET f == [Begin(db, old, "syncExternalGroups", now) EXCEPT
                 !.userId = userId, !.externalGroups = externalGroups,
                 !.userName = createdBy]
    IN [db |-> db, f |-> IF externalGroups.isArray THEN f ELSE Return(f)]

getAll(db, old, now) ==
    [db |-> db, f |-> Begin(db, old, "getAll", now)]

(***************************************************************************)
(* Inputs                                                                  *)
(***************************************************************************)
GroupInputs(ids, names, roles, lists) ==
    {[id |-> i, name |-> n, rootRole |-> r, users |-> l] :
        i \in ids, n \in names, r \in roles, l \in lists}

SeedGroups == GroupInputs({NoId}, {"a", "b"}, {NoRole}, {<<1, 2>>, <<3>>})
CreateInputs == GroupInputs({NoId, 1}, Names, RootRoles, UserLists)
UpdateInputs == GroupInputs(GroupIds, Names, RootRoles, UserLists)
ExternalInputs == {NoExternal} \cup {[isArray |-> TRUE, names |-> S] : S \in SUBSET {"a", "b"}}
ConcCreateInputs == GroupInputs({NoId}, {"a"}, {NoRole}, {<<>>, <<1>>})
ConcUpdateInputs == GroupInputs({1}, {"a", "b"}, {NoRole}, {<<1>>, <<2>>})
ConcExternalInputs == {[isArray |-> TRUE, names |-> {"a"}]}

(***************************************************************************)
(* State machine                                                           *)
(***************************************************************************)
Init ==
    /\ groups = <<>>
    /\ groupUsers = <<>>
    /\ groupRoles = <<>>
    /\ events = <<>>
    /\ nextId = 1
    /\ calls = 0
    /\ seeds = 0
    /\ frame = [p \in Procs |-> IdleFrame]

now == seeds + calls

Apply(p, r) ==
    /\ groups' = r.db.groups
    /\ groupUsers' = r.db.groupUsers
    /\ groupRoles' = r.db.groupRoles
    /\ events' = r.db.events
    /\ nextId' = r.db.nextId
    /\ frame' = [frame EXCEPT ![p] = r.f]

Finish(p, s) == Apply(p, Run(s.db, s.f))

\* The store as it is when the service starts working on it: groups made
\* by earlier createGroup calls.
SeedGroup ==
    /\ seeds < MaxSeeds
    /\ calls = 0
    /\ \E group \in SeedGroups :
          Finish(Main, createGroup(DB, frame[Main], group, "admin", now))
    /\ seeds' = seeds + 1
    /\ calls' = calls

\* A project role given to a group by the access service, before the calls
\* under study.
AddGroupRole ==
    /\ calls = 0
    /\ \E i \in DOMAIN groups, project \in Projects :
          /\ groups[i].rootRole = NoRole
          /\ ~ \E j \in DOMAIN groupRoles :
                 groupRoles[j] = [groupId |-> groups[i].id, project |-> project]
          /\ groupRoles' = Append(groupRoles, [groupId |-> groups[i].id, project |-> project])
    /\ UNCHANGED <<groups, groupUsers, events, nextId, calls, seeds, frame>>

Called(max) ==
    /\ calls < max
    /\ calls' = calls + 1
    /\ seeds' = seeds

CreateGroup ==
    /\ Called(MaxCalls)
    /\ \E group \in CreateInputs, userName \in Actors :
          Finish(Main, createGroup(DB, frame[Main], group, userName, now))

UpdateGroup ==
    /\ Called(MaxCalls)
    /\ \E group \in UpdateInputs, userName \in Actors :
          Finish(Main, updateGroup(DB, frame[Main], group, userName, now))

GetAll ==
    /\ Called(MaxCalls)
    /\ Finish(Main, getAll(DB, frame[Main], now))

SyncExternalGroups(max) ==
    /\ Called(max)
    /\ \E userId \in Users, externalGroups \in ExternalInputs, createdBy \in Actors :
          Finish(Main, syncExternalGroups(DB, frame[Main], userId, externalGroups,
                                          createdBy, now))

Next == SeedGroup \/ AddGroupRole \/ CreateGroup \/ UpdateGroup \/ GetAll \/ SyncExternalGroups(MaxCalls)

Spec == Init /\ [][Next]_vars

(***************************************************************************)
(* Repeated external-group sync                                            *)
(***************************************************************************)
NextSync == SeedGroup \/ SyncExternalGroups(MaxSyncCalls)

SpecSync == Init /\ [][NextSync]_vars

(***************************************************************************)
(* Interleaved calls: each awaited store call is a step of its own         *)
(***************************************************************************)
Idle(p) == frame[p].pc \in {"idle", "done"}

BeginCreateGroup(p) ==
    /\ Idle(p)
    /\ Called(MaxConcCalls)
    /\ \E group \in ConcCreateInputs :
          Apply(p, createGroup(DB, frame[p], group, "admin", now))

BeginUpdateGroup(p) ==
    /\ Idle(p)
    /\ Called(MaxConcCalls)
    /\ \E group \in ConcUpdateInputs :
          Apply(p, updateGroup(DB, frame[p], group, "admin", now))

BeginSyncExternalGroups(p) ==
    /\ Idle(p)
    /\ Called(MaxConcCalls)
    /\ \E userId \in {1}, externalGroups \in ConcExternalInputs :
          Apply(p, syncExternalGroups(DB, frame[p], userId, externalGroups, "admin", now))

StoreCall(p) ==
    /\ ~ Idle(p)
    /\ Apply(p, Step(DB, frame[p]))
    /\ UNCHANGED <<calls, seeds>>

NextConc ==
    \/ SeedGroup
    \/ \E p \in Procs : BeginCreateGroup(p)
    \/ \E p \in Procs : BeginUpdateGroup(p)
    \/ \E p \in Procs : BeginSyncExternalGroups(p)
    \/ \E p \in Procs : StoreCall(p)

SpecConc == Init /\ [][NextConc]_vars

(***************************************************************************)
(* Properties.  In Spec and SpecSync every call runs to its end within one *)
(* action, so the frame of Main is the last completed call: its arguments, *)
(* its result, the store calls it made and the store as it was before it.  *)
(***************************************************************************)
F == frame[Main]

Members(db, id) ==
    {db.groupUsers[i].userId : i \in {k \in DOMAIN db.groupUsers : db.groupUsers[k].groupId = id}}

ValidationErrors == {"BadDataError", "NameExistsError"}

Untouched ==
    groups = F.pre.groups /\ groupUsers = F.pre.groupUsers /\ events = F.pre.events

Updating == F.op = "updateGroup" /\ exists(F.pre, F.group.id)

\* C1: createGroup with an empty name fails with BadDataError, whatever the
\* other fields of the input and whatever the store holds.
C1_EmptyNameRejected ==
    (F.op = "createGroup" /\ F.group.name = "") => F.result = "BadDataError"

C1_Witness ==
    /\ F.op = "createGroup" /\ F.group.name = "" /\ F.result = "BadDataError"
    /\ F.group.users # <<>> /\ F.group.rootRole # NoRole /\ F.group.id # NoId
    /\ Len(F.pre.groups) = 2

\* C2: a createGroup whose name is held by a stored group fails with
\* NameExistsError and creates no group; an updateGroup that changes the name
\* to one held by another group fails with NameExistsError; an updateGroup that
\* keeps the group's own name never asks the store whether the name exists and
\* is not rejected for a collision.
C2_NameCollision ==
    /\ (F.op = "createGroup" /\ existsWithName(F.pre, F.group.name))
          => (F.result = "NameExistsError" /\ groups = F.pre.groups)
    /\ (Updating /\ F.group.name # "" /\ F.group.name # get(F.pre, F.group.id).name
           /\ existsWithName(F.pre, F.group.name))
          => (F.result = "NameExistsError" /\ groups = F.pre.groups)
    /\ (Updating /\ F.group.name = get(F.pre, F.group.id).name)
          => (~ F.nameChecked /\ F.result # "NameExistsError")

C2_Witness ==
    /\ Updating /\ F.result = "NameExistsError"
    /\ F.group.name # get(F.pre, F.group.id).name

C2_OwnNameReached ==
    /\ Updating /\ F.result = "ok" /\ Len(groups) = 2
    /\ F.group.name = get(F.pre, F.group.id).name

\* C3 as stated: an updateGroup that carries a root role for a group with a
\* project role on record fails with BadDataError and leaves the group
\* unchanged; an updateGroup that adds a root role to a group with neither
\* role, under a valid non-colliding name, succeeds and persists the update.
\* The second half is read for user lists that name no user twice.
ValidName ==
    /\ F.group.name # ""
    /\ \/ F.group.name = get(F.pre, F.group.id).name
       \/ ~ existsWithName(F.pre, F.group.name)

RoleConflict ==
    Updating /\ F.group.rootRole # NoRole /\ hasProjectRole(F.pre, F.group.id)

AddsRootRole ==
    /\ Updating /\ F.group.rootRole # NoRole
    /\ ~ hasProjectRole(F.pre, F.group.id)
    /\ get(F.pre, F.group.id).rootRole = NoRole
    /\ ValidName
    /\ ~ HasDuplicates(F.group.users)

Persisted ==
    get(DB, F.group.id) =
        [id |-> F.group.id, name |-> F.group.name, rootRole |-> F.group.rootRole]

C3_CollidingNameReached == RoleConflict /\ F.result = "NameExistsError"

C3_AddsReached == AddsRootRole /\ F.result = "ok" /\ F.added # <<>>

\* C4: a successful updateGroup with existing members E and desired list D
\* passes exactly D \ E as additions and exactly E \ D as removals, touches no
\* user in both, and leaves the group with member set D.
C4_MembershipDiff ==
    (F.op = "updateGroup" /\ F.result = "ok") =>
        LET E == {F.existingUsers[i].userId : i \in DOMAIN F.existingUsers}
            D == Range(F.group.users)
            removals == {F.removed[i].userId : i \in DOMAIN F.removed}
        IN /\ E = Members(F.pre, F.group.id)
           /\ Range(F.added) = D \ E
           /\ removals = E \ D
           /\ (E \cap D) \cap (Range(F.added) \cup removals) = {}
           /\ \A i \in DOMAIN F.removed : F.removed[i].groupId = F.group.id
           /\ Members(DB, F.group.id) = D
           /\ \A g \in GroupIds : g # F.group.id => Members(DB, g) = Members(F.pre, g)

C4_Witness ==
    /\ F.op = "updateGroup" /\ F.result = "ok"
    /\ Members(F.pre, F.group.id) = {1, 2}
    /\ F.group.users = <<2, 3>>
    /\ F.added = <<3>> /\ Len(F.removed) = 1 /\ F.removed[1].userId = 1

\* C5: a syncExternalGroups call that directly follows a call with the same
\* user and the same external list adds the user to no group, removes the user
\* from no group and leaves the membership rows as the first call left them.
Repeated ==
    /\ F.op = "syncExternalGroups" /\ F.prev.op = "syncExternalGroups"
    /\ F.prev.userId = F.userId /\ F.prev.externalGroups = F.externalGroups

C5_SyncIdempotent ==
    Repeated => /\ F.result = "ok"
                /\ F.added = <<>>
                /\ F.removed = <<>>
                /\ groupUsers = F.pre.groupUsers

C5_Witness ==
    /\ Repeated /\ F.prev.changed /\ F.externalGroups.names = {"a"}
    /\ F.userId \in Members(DB, 1) \cup Members(DB, 2)

\* C6: a createGroup or updateGroup that fails with a validation error has
\* made no store write, and groups, memberships and the event log are as they
\* were before the call.
C6_NoWriteBeforeValidation ==
    (F.op \in {"createGroup", "updateGroup"} /\ F.result \in ValidationErrors)
        => (F.writes = <<>> /\ Untouched)

C6_Witness ==
    /\ RoleConflict /\ F.result = "BadDataError" /\ F.group.name # ""
    /\ F.group.users # <<>>

\* C7: getAll returns one entry per stored group in listing order; each entry
\* lists exactly the users with a membership row of that group, with the
\* row's joinedAt and createdBy, and exactly the projects of that group's
\* group-project rows.
RowsOf(id) == {k \in DOMAIN groupUsers : groupUsers[k].groupId = id}
ProjectRowsOf(id) == {k \in DOMAIN groupRoles : groupRoles[k].groupId = id}

C7_GetAllExact ==
    F.op = "getAll" =>
        /\ Len(F.ret) = Len(groups)
        /\ \A i \in DOMAIN groups :
              LET g == F.ret[i] IN
              /\ g.id = groups[i].id /\ g.name = groups[i].name
              /\ Len(g.users) = Cardinality(RowsOf(g.id))
              /\ Range(g.users) =
                    {[user |-> groupUsers[k].userId, joinedAt |-> groupUsers[k].joinedAt,
                      createdBy |-> groupUsers[k].createdBy] : k \in RowsOf(g.id)}
              /\ Len(g.projects) = Cardinality(ProjectRowsOf(g.id))
              /\ Range(g.projects) = {groupRoles[k].project : k \in ProjectRowsOf(g.id)}

C7_Witness ==
    /\ F.op = "getAll" /\ Len(F.ret) = 2
    /\ Len(F.ret[1].users) = 2 /\ Len(F.ret[2].users) = 1
    /\ F.ret[1].projects = <<>> /\ F.ret[2].projects # <<>>

\* C8: no two stored groups have the same name, also when calls interleave.
C8_UniqueNames ==
    \A i, j \in DOMAIN groups : i # j => groups[i].name # groups[j].name

C10_Events ==
    /\ (F.op = "createGroup" /\ F.result = "ok") =>
          /\ events = Append(F.pre.events,
                 [type |-> "GROUP_CREATED", createdBy |-> F.userName, data |-> F.group])
          /\ F.writes = <<"create", "addUsersToGroup", "store">>
    /\ (F.op = "updateGroup" /\ F.result = "ok") =>
          /\ events = Append(F.pre.events,
                 [type |-> "GROUP_UPDATED", createdBy |-> F.userName,
                  data |-> get(DB, F.group.id), preData |-> get(F.pre, F.group.id)])
          /\ F.writes = <<"update", "updateGroupUsers", "store">>

C10_Witness ==
    /\ F.op = "updateGroup" /\ F.result = "ok" /\ F.userName = "bob"
    /\ get(DB, F.group.id) # get(F.pre, F.group.id)
    /\ Len(events) = 3

====
